---- MODULE Spec2Model ----
(***************************************************************************)
(* A model of the CMDS Eagle plugin: the Eagle search modal, the image     *)
(* paste choice modal (src/unnamed/part_000) and the settings tab          *)
(* (src/src/settings.ts).                                                  *)
(*                                                                         *)
(* Strings whose characters matter (file extensions, tags, formatted      *)
(* sizes) are sequences of one-character strings.  Every part of the       *)
(* plugin has its own specification over the same variables: SpecGetItems, *)
(* SpecFilter, SpecLoad, SpecInsert, SpecPaste, SpecTab, SpecFmt, SpecTag. *)
(***************************************************************************)
EXTENDS Integers, Sequences, FiniteSets, TLC

VARIABLES
    settings,        \* this.plugin.settings (shared with the modal as this.settings)
    saved,           \* what saveSettings() last wrote
    \* ---- EagleSearchModal
    activeScopes,    \* Set<SearchScope>
    activeFileTypes, \* Set<string>
    allItems,        \* EagleItem[]
    isLoading,
    modalOpen,       \* the modal is on screen
    uiBuilt,         \* buildFilterUI has created the filter buttons
    scopeBtn,        \* 'is-active' mark of the modal's four scope buttons
    typeBtn,         \* 'is-active' mark of the modal's four type buttons
    libraryText,     \* text of libraryNameEl
    shown,           \* the last list getItems() returned
    \* ---- CMDSPACEEagleSettingTab
    tabShown,        \* display() has rendered the tab
    tabScopeBtn,     \* 'is-active' mark of the tab's scope buttons
    tabTypeBtn,      \* 'is-active' mark of the tab's type buttons
    panels,          \* the provider panels display() has rendered
    pendingDisplay,  \* the values of the dropdown handlers waiting in
                     \* 'await saveSettings()', oldest first
    edited,          \* the text fields of the provider panels whose onChange
                     \* has run, as <<provider, field>>
    \* ---- loadItems
    runs,            \* one record per loadItems() invocation of the modal
    apiLog,          \* the calls made on this.api and how each ended
    notices,         \* the Notices shown, oldest first
    \* ---- insertItemLink
    activeView,      \* a MarkdownView is the active view
    chosen,          \* one record per insertItemLink() invocation
    inserts,         \* the editor.replaceSelection calls, oldest first
    \* ---- ImagePasteChoiceModal
    pasteOpen,       \* the modal is on screen
    response,        \* this.response
    resolvePromise,  \* the promise this.resolvePromise resolves (0: undefined)
    promises,        \* the promises getResponse() has returned
    period,          \* the toggle, and what the user did since the last open
    \* ---- getItemText, formatFileSize and normalizeTag
    itemTexts,       \* the last getItemText call: its item, the scopes active
                     \* at the call, and what it returned
    bytes,           \* the argument of the last formatFileSize call
    formatted,       \* what it returned
    tag,             \* the argument of the last normalizeTag call
    normalized       \* what it returned

searchVars == <<activeScopes, activeFileTypes, allItems, isLoading, modalOpen,
                uiBuilt, scopeBtn, typeBtn, libraryText, shown>>
tabVars == <<tabShown, tabScopeBtn, tabTypeBtn, panels, pendingDisplay,
             edited>>
loadVars == <<runs, apiLog, notices>>
insertVars == <<activeView, chosen, inserts>>
pasteVars == <<pasteOpen, response, resolvePromise, promises, period>>
pureVars == <<itemTexts, bytes, formatted, tag, normalized>>
otherVars == <<insertVars, pasteVars, pureVars>>
vars == <<settings, saved, searchVars, tabVars, loadVars, otherVars>>

---------------------------------------------------------------------------
(* Bounds of the model *)

MaxItems == 3
MaxCalls == 3
MaxPending == 2
MaxPromises == 3
MaxChosen == 2
ByteWindow == 60
MaxTagLen == 4

---------------------------------------------------------------------------
(* Sequences and characters *)

Range(s) == {s[i] : i \in 1..Len(s)}

SeqsUpTo(S, n) == UNION {[1..k -> S] : k \in 0..n}

\* s with every element of ys that it lacks pushed at its end, in ys's order
RECURSIVE PushMissing(_, _)
PushMissing(s, ys) ==
    IF ys = <<>> THEN s
    ELSE PushMissing(IF Head(ys) \in Range(s) THEN s ELSE Append(s, Head(ys)),
                     Tail(ys))

UpperChars == {"A", "G", "J", "M", "N", "P"}

LowerChar(c) ==
    CASE c = "A" -> "a"
      [] c = "G" -> "g"
      [] c = "J" -> "j"
      [] c = "M" -> "m"
      [] c = "N" -> "n"
      [] c = "P" -> "p"
      [] OTHER -> c

toLowerCase(s) == [i \in 1..Len(s) |-> LowerChar(s[i])]

---------------------------------------------------------------------------
(* types.ts: the supported extensions (a representative few of each list) *)

png == <<"p", "n", "g">>
jpg == <<"j", "p", "g">>
mp4 == <<"m", "p", "4">>
pdf == <<"p", "d", "f">>

SUPPORTED_IMAGE_EXTENSIONS == <<png, jpg>>
SUPPORTED_VIDEO_EXTENSIONS == <<mp4>>
SUPPORTED_DOCUMENT_EXTENSIONS == <<pdf>>

SearchScope == {"name", "tags", "annotation", "folders"}
FileTypeCategory == {"images", "videos", "documents", "all"}
TabTypeCategory == {"images", "videos", "documents"}
CloudProviderType == {"r2", "imghippo", "s3", "webdav", "custom"}

---------------------------------------------------------------------------
(* types.ts: the settings record and the values it is loaded with *)

DefaultCloudProviders ==
    [r2       |-> [workerUrl |-> <<>>, apiKey |-> <<>>, publicUrl |-> <<>>,
                   enabled |-> FALSE],
     imghippo |-> [apiKey |-> <<>>, enabled |-> FALSE],
     s3       |-> [endpoint |-> <<>>, region |-> <<>>, bucket |-> <<>>,
                   accessKeyId |-> <<>>, secretAccessKey |-> <<>>,
                   publicUrl |-> <<>>, enabled |-> FALSE],
     webdav   |-> [serverUrl |-> <<>>, username |-> <<>>, password |-> <<>>,
                   uploadPath |-> <<>>, publicUrl |-> <<>>, enabled |-> FALSE],
     custom   |-> [uploadUrl |-> <<>>, publicUrl |-> <<>>, enabled |-> FALSE]]

DEFAULT_SETTINGS ==
    [searchScope         |-> <<"name", "tags">>,
     searchFileTypes     |-> SUPPORTED_IMAGE_EXTENSIONS,
     insertThumbnail     |-> FALSE,
     insertAsEmbed       |-> TRUE,
     linkFormat          |-> "markdown",
     tagNormalization    |-> "none",
     tagPrefix           |-> <<>>,
     activeCloudProvider |-> "r2",
     cloudProviders      |-> DefaultCloudProviders]

\* the search filters data.json may hold when the plugin loads
LoadedSearchScopes == {<<"name", "tags">>, <<"annotation">>}
LoadedSearchFileTypes ==
    {SUPPORTED_IMAGE_EXTENSIONS,
     SUPPORTED_IMAGE_EXTENSIONS \o SUPPORTED_VIDEO_EXTENSIONS
        \o SUPPORTED_DOCUMENT_EXTENSIONS,
     <<png, mp4>>}

---------------------------------------------------------------------------
(* EagleSearchModal.loadItems and the API it awaits.  A step of a run goes  *)
(* from the completion of one await to the next await, as the event loop   *)
(* runs it.                                                                *)

EagleItem(id, ext) == [id |-> id, ext |-> ext]

ItemPool ==
    {EagleItem(1, <<"P", "N", "G">>), EagleItem(2, jpg), EagleItem(3, mp4),
     EagleItem(4, pdf), EagleItem(5, <<"g", "i", "f">>)}

\* what api.listItems() may answer
ListPool ==
    {<<>>, <<EagleItem(2, jpg)>>, <<EagleItem(1, <<"P", "N", "G">>), EagleItem(3, mp4)>>}

\* what api.getLibraryName() may answer ("" when Eagle names no library)
LibraryNames == {"", "Lib"}

\* an entry of apiLog: run called api (ev = "call"), or the call returned val
\* (ev = "return"), or it threw (ev = "throw")
Event(run, api, ev, val) == [run |-> run, api |-> api, ev |-> ev, val |-> val]

\* a loadItems() invocation: where it stands, how its promise ended, the
\* local libraryName, and allItems as the invocation found it
NewRun(pc, result) ==
    [pc |-> pc, result |-> result, libraryName |-> "", allItemsBefore |-> allItems]

Awaiting == {"isConnected", "getLibraryName", "listItems"}

\* loadItems without its isLoading guard
loadItemsUnguarded ==
    /\ isLoading' = TRUE
    /\ runs' = Append(runs, NewRun("isConnected", "pending"))
    /\ apiLog' = Append(apiLog, Event(Len(runs) + 1, "isConnected", "call", "-"))

\* lines 170-175: loadItems() is called; it runs up to its first await
loadItems ==
    IF isLoading
    THEN /\ runs' = Append(runs, NewRun("returned", "resolved"))
         /\ UNCHANGED <<isLoading, apiLog>>
    ELSE /\ isLoading' = TRUE
         /\ runs' = Append(runs, NewRun("isConnected", "pending"))
         /\ apiLog' = Append(apiLog, Event(Len(runs) + 1, "isConnected", "call", "-"))

\* the not-connected branch without its return: the run goes on
IsConnectedReturnFallingThrough(i, connected) ==
    /\ i \in 1..Len(runs)
    /\ runs[i].pc = "isConnected"
    /\ IF ~connected
       THEN /\ notices' = Append(notices, "not_running")
            /\ modalOpen' = FALSE
       ELSE UNCHANGED <<notices, modalOpen>>
    /\ runs' = [runs EXCEPT ![i].pc = "getLibraryName"]
    /\ apiLog' = apiLog \o <<Event(i, "isConnected", "return",
                                   IF connected THEN "true" ELSE "false"),
                             Event(i, "getLibraryName", "call", "-")>>
    /\ UNCHANGED <<settings, saved, activeScopes, activeFileTypes, allItems,
                   isLoading, uiBuilt, scopeBtn, typeBtn, libraryText, shown,
                   tabVars, otherVars>>

\* lines 175-182: isConnected() answers
IsConnectedReturn(i, connected) ==
    /\ i \in 1..Len(runs)
    /\ runs[i].pc = "isConnected"
    /\ IF ~connected
       THEN /\ notices' = Append(notices, "not_running")
            /\ modalOpen' = FALSE
            /\ runs' = [runs EXCEPT ![i].pc = "done", ![i].result = "resolved"]
            /\ apiLog' = Append(apiLog, Event(i, "isConnected", "return", "false"))
            /\ isLoading' = FALSE
       ELSE /\ runs' = [runs EXCEPT ![i].pc = "getLibraryName"]
            /\ apiLog' = apiLog \o <<Event(i, "isConnected", "return", "true"),
                                     Event(i, "getLibraryName", "call", "-")>>
            /\ UNCHANGED <<notices, modalOpen, isLoading>>
    /\ UNCHANGED <<settings, saved, activeScopes, activeFileTypes, allItems,
                   uiBuilt, scopeBtn, typeBtn, libraryText, shown, tabVars, otherVars>>

\* lines 182-187: getLibraryName() answers
GetLibraryNameReturn(i, libraryName) ==
    /\ i \in 1..Len(runs)
    /\ runs[i].pc = "getLibraryName"
    /\ libraryText' = IF uiBuilt /\ libraryName # ""
                      THEN [name |-> libraryName, count |-> -1]
                      ELSE libraryText
    /\ runs' = [runs EXCEPT ![i].pc = "listItems", ![i].libraryName = libraryName]
    /\ apiLog' = apiLog \o <<Event(i, "getLibraryName", "return", libraryName),
                             Event(i, "listItems", "call", "-")>>
    /\ UNCHANGED <<settings, saved, activeScopes, activeFileTypes, allItems,
                   isLoading, modalOpen, uiBuilt, scopeBtn, typeBtn, shown,
                   notices, tabVars, otherVars>>

\* lines 187-195 and 199-201: listItems() answers
ListItemsReturn(i, items) ==
    /\ i \in 1..Len(runs)
    /\ runs[i].pc = "listItems"
    /\ allItems' = items
    /\ libraryText' = IF uiBuilt
                      THEN [name |-> IF runs[i].libraryName # ""
                                     THEN runs[i].libraryName ELSE "Eagle",
                            count |-> Len(items)]
                      ELSE libraryText
    /\ runs' = [runs EXCEPT ![i].pc = "done", ![i].result = "resolved"]
    /\ apiLog' = Append(apiLog, Event(i, "listItems", "return", "-"))
    /\ isLoading' = FALSE
    /\ UNCHANGED <<settings, saved, activeScopes, activeFileTypes, modalOpen,
                   uiBuilt, scopeBtn, typeBtn, shown, notices, tabVars, otherVars>>

\* a catch block with no finally after it: isLoading stays set
ApiThrowWithoutFinally(i) ==
    /\ i \in 1..Len(runs)
    /\ runs[i].pc \in Awaiting
    /\ notices' = Append(notices, "load_failed")
    /\ runs' = [runs EXCEPT ![i].pc = "failed", ![i].result = "resolved"]
    /\ apiLog' = Append(apiLog, Event(i, runs[i].pc, "throw", "-"))
    /\ UNCHANGED <<settings, saved, activeScopes, activeFileTypes, allItems,
                   isLoading, modalOpen, uiBuilt, scopeBtn, typeBtn,
                   libraryText, shown, tabVars, otherVars>>

\* a catch block that shows the notice and throws the error on
ApiThrowRethrowing(i) ==
    /\ i \in 1..Len(runs)
    /\ runs[i].pc \in Awaiting
    /\ notices' = Append(notices, "load_failed")
    /\ runs' = [runs EXCEPT ![i].pc = "failed", ![i].result = "rejected"]
    /\ apiLog' = Append(apiLog, Event(i, runs[i].pc, "throw", "-"))
    /\ isLoading' = FALSE
    /\ UNCHANGED <<settings, saved, activeScopes, activeFileTypes, allItems,
                   modalOpen, uiBuilt, scopeBtn, typeBtn, libraryText, shown,
                   tabVars, otherVars>>

\* lines 196-201: the awaited call throws
ApiThrow(i) ==
    /\ i \in 1..Len(runs)
    /\ runs[i].pc \in Awaiting
    /\ notices' = Append(notices, "load_failed")
    /\ runs' = [runs EXCEPT ![i].pc = "failed", ![i].result = "resolved"]
    /\ apiLog' = Append(apiLog, Event(i, runs[i].pc, "throw", "-"))
    /\ isLoading' = FALSE
    /\ UNCHANGED <<settings, saved, activeScopes, activeFileTypes, allItems,
                   modalOpen, uiBuilt, scopeBtn, typeBtn, libraryText, shown,
                   tabVars, otherVars>>

---------------------------------------------------------------------------
(* EagleSearchModal: construction, opening, the filter buttons, getItems *)

\* lines 123-130
getExtensionsForCategory(category) ==
    CASE category = "images" -> SUPPORTED_IMAGE_EXTENSIONS
      [] category = "videos" -> SUPPORTED_VIDEO_EXTENSIONS
      [] category = "documents" -> SUPPORTED_DOCUMENT_EXTENSIONS
      [] category = "all" -> SUPPORTED_IMAGE_EXTENSIONS \o SUPPORTED_VIDEO_EXTENSIONS
                                \o SUPPORTED_DOCUMENT_EXTENSIONS

\* lines 118-121, for the set of active file types aft
isTypeCategoryActive(aft, category) ==
    \E ext \in Range(getExtensionsForCategory(category)) : ext \in aft

\* line 37: new Set(settings.searchScope)
newActiveScopes(s) == Range(s.searchScope)

\* line 38: new Set(settings.searchFileTypes)
newActiveFileTypes(s) == Range(s.searchFileTypes)

NoLibraryText == [name |-> "", count |-> -1]
LoadingText == [name |-> "Loading...", count |-> -1]

\* lines 33-45: a new EagleSearchModal(app, api, settings)
NewModal ==
    /\ activeScopes' = newActiveScopes(settings)
    /\ activeFileTypes' = newActiveFileTypes(settings)
    /\ allItems' = <<>>
    /\ isLoading' = FALSE
    /\ modalOpen' = FALSE
    /\ uiBuilt' = FALSE
    /\ scopeBtn' = [s \in SearchScope |-> FALSE]
    /\ typeBtn' = [c \in FileTypeCategory |-> FALSE]
    /\ libraryText' = NoLibraryText
    /\ shown' = <<>>
    /\ runs' = <<>>
    /\ apiLog' = <<>>
    /\ UNCHANGED <<settings, saved, notices, tabVars, otherVars>>

\* lines 47-80 and 170-175: open() shows the modal, onOpen builds the filter
\* buttons and calls loadItems
OnOpen ==
    /\ ~modalOpen
    /\ Len(runs) < MaxCalls
    /\ modalOpen' = TRUE
    /\ uiBuilt' = TRUE
    /\ libraryText' = LoadingText
    /\ scopeBtn' = [s \in SearchScope |-> s \in activeScopes]
    /\ typeBtn' = [c \in FileTypeCategory |-> isTypeCategoryActive(activeFileTypes, c)]
    /\ loadItems
    /\ UNCHANGED <<settings, saved, activeScopes, activeFileTypes, allItems,
                   shown, notices, tabVars, otherVars>>

\* the user dismisses the modal (esc)
CloseModal ==
    /\ modalOpen
    /\ modalOpen' = FALSE
    /\ UNCHANGED <<settings, saved, activeScopes, activeFileTypes, allItems,
                   isLoading, uiBuilt, scopeBtn, typeBtn, libraryText, shown,
                   tabVars, loadVars,
                   otherVars>>

\* the click handler, had it written the modal's scopes back to the settings
ScopeButtonClickPersisting(scope) ==
    /\ modalOpen /\ uiBuilt
    /\ IF scope \in activeScopes
       THEN IF Cardinality(activeScopes) > 1
            THEN /\ activeScopes' = activeScopes \ {scope}
                 /\ scopeBtn' = [scopeBtn EXCEPT ![scope] = FALSE]
            ELSE UNCHANGED <<activeScopes, scopeBtn>>
       ELSE /\ activeScopes' = activeScopes \cup {scope}
            /\ scopeBtn' = [scopeBtn EXCEPT ![scope] = TRUE]
    /\ settings' = [settings EXCEPT !.searchScope =
                       SelectSeq(<<"name", "tags", "annotation", "folders">>,
                                 LAMBDA s : s \in activeScopes')]
    /\ UNCHANGED <<saved, activeFileTypes, allItems, isLoading,
                   modalOpen, uiBuilt, typeBtn, libraryText, shown, tabVars,
                   loadVars, otherVars>>

\* the click handler without the test of activeScopes.size
ScopeButtonClickUnguarded(scope) ==
    /\ modalOpen /\ uiBuilt
    /\ IF scope \in activeScopes
       THEN /\ activeScopes' = activeScopes \ {scope}
            /\ scopeBtn' = [scopeBtn EXCEPT ![scope] = FALSE]
       ELSE /\ activeScopes' = activeScopes \cup {scope}
            /\ scopeBtn' = [scopeBtn EXCEPT ![scope] = TRUE]
    /\ UNCHANGED <<settings, saved, activeFileTypes, allItems, isLoading,
                   modalOpen, uiBuilt, typeBtn, libraryText, shown, tabVars,
                   loadVars, otherVars>>

\* lines 87-100: a click on the modal's scope button
ScopeButtonClick(scope) ==
    /\ modalOpen /\ uiBuilt
    /\ IF scope \in activeScopes
       THEN IF Cardinality(activeScopes) > 1
            THEN /\ activeScopes' = activeScopes \ {scope}
                 /\ scopeBtn' = [scopeBtn EXCEPT ![scope] = FALSE]
            ELSE UNCHANGED <<activeScopes, scopeBtn>>
       ELSE /\ activeScopes' = activeScopes \cup {scope}
            /\ scopeBtn' = [scopeBtn EXCEPT ![scope] = TRUE]
    /\ UNCHANGED <<settings, saved, activeFileTypes, allItems, isLoading,
                   modalOpen, uiBuilt, typeBtn, libraryText, shown, tabVars,
                   loadVars, otherVars>>

\* lines 132-156, from the set of active file types aft
toggleTypeCategory(aft, category) ==
    LET extensions == Range(getExtensionsForCategory(category))
        isCurrentlyActive == isTypeCategoryActive(aft, category)
        removed == aft \ extensions
    IN  IF category = "all"
        THEN IF isCurrentlyActive
             THEN Range(SUPPORTED_IMAGE_EXTENSIONS)
             ELSE Range(SUPPORTED_IMAGE_EXTENSIONS)
                    \cup Range(SUPPORTED_VIDEO_EXTENSIONS)
                    \cup Range(SUPPORTED_DOCUMENT_EXTENSIONS)
        ELSE IF isCurrentlyActive
             THEN IF removed = {} THEN Range(SUPPORTED_IMAGE_EXTENSIONS) ELSE removed
             ELSE aft \cup extensions

\* lines 158-168
updateTypeButtonStates(aft) ==
    [c \in FileTypeCategory |-> isTypeCategoryActive(aft, c)]

\* lines 109-115: a click on the modal's type button
TypeButtonClick(category) ==
    /\ modalOpen /\ uiBuilt
    /\ activeFileTypes' = toggleTypeCategory(activeFileTypes, category)
    /\ typeBtn' = updateTypeButtonStates(activeFileTypes')
    /\ UNCHANGED <<settings, saved, activeScopes, allItems, isLoading,
                   modalOpen, uiBuilt, scopeBtn, libraryText, shown, tabVars,
                   loadVars, otherVars>>

\* getItems comparing the extension as it is spelled
getItemsCaseSensitive ==
    SelectSeq(allItems, LAMBDA item : item.ext \in activeFileTypes)

\* lines 204-208
getItems ==
    SelectSeq(allItems, LAMBDA item : toLowerCase(item.ext) \in activeFileTypes)

\* the host asks the modal for its items
GetItems ==
    /\ shown' = getItems
    /\ UNCHANGED <<settings, saved, activeScopes, activeFileTypes, allItems,
                   isLoading, modalOpen, uiBuilt, scopeBtn, typeBtn,
                   libraryText, tabVars, loadVars,
                   otherVars>>

---------------------------------------------------------------------------
(* CMDSPACEEagleSettingTab: display() and the handlers of its controls *)

\* main.ts saveSettings(): writes the settings record st
saveSettings(st) == st

\* lines 132-153: the panels the switch renders for the provider
renderCloudProviderSettings(provider) ==
    CASE provider = "imghippo" -> {"ImgHippo Settings"}
      [] provider = "r2" -> {"Cloudflare R2 Settings"}
      [] provider = "s3" -> {"Amazon S3 Settings"}
      [] provider = "webdav" -> {"WebDAV Settings"}
      [] provider = "custom" -> {"Custom Server Settings"}
      [] OTHER -> {}

\* lines 450-458: hasAllImages, hasAllVideos, hasAllDocs
hasAll(st, category) ==
    \A ext \in Range(getExtensionsForCategory(category)) :
        ext \in Range(st.searchFileTypes)

\* lines 21-130 and 413-534: what display() renders from the settings st
displayScopeBtn(st) == [k \in SearchScope |-> k \in Range(st.searchScope)]
displayTypeBtn(st) == [c \in TabTypeCategory |-> hasAll(st, c)]

\* lines 21-130: the host shows the tab
Display ==
    /\ ~tabShown
    /\ tabShown' = TRUE
    /\ tabScopeBtn' = displayScopeBtn(settings)
    /\ tabTypeBtn' = displayTypeBtn(settings)
    /\ panels' = renderCloudProviderSettings(settings.activeCloudProvider)
    /\ UNCHANGED <<settings, saved, pendingDisplay, edited, searchVars, loadVars,
                   otherVars>>

\* lines 432-443: a click on a scope button of the tab
TabScopeClick(key) ==
    /\ tabShown
    /\ LET scope == settings.searchScope
       IN  IF key \in Range(scope)
           THEN IF Len(scope) > 1
                THEN /\ settings' = [settings EXCEPT !.searchScope =
                                        SelectSeq(scope, LAMBDA s : s # key)]
                     /\ tabScopeBtn' = [tabScopeBtn EXCEPT ![key] = FALSE]
                ELSE UNCHANGED <<settings, tabScopeBtn>>
           ELSE /\ settings' = [settings EXCEPT !.searchScope = Append(scope, key)]
                /\ tabScopeBtn' = [tabScopeBtn EXCEPT ![key] = TRUE]
    /\ saved' = saveSettings(settings')
    /\ UNCHANGED <<tabShown, tabTypeBtn, panels, pendingDisplay, edited, searchVars,
                   loadVars, otherVars>>

\* lines 464-533: a click on the Images, Videos or Documents button of the tab
TabTypeClick(category) ==
    /\ tabShown
    /\ LET types == settings.searchFileTypes
           extensions == getExtensionsForCategory(category)
           toggled == IF hasAll(settings, category)
                      THEN SelectSeq(types, LAMBDA ext : ext \notin Range(extensions))
                      ELSE PushMissing(types, extensions)
           marked == [tabTypeBtn EXCEPT ![category] = ~hasAll(settings, category)]
       IN  IF Len(toggled) = 0
           THEN /\ settings' = [settings EXCEPT !.searchFileTypes =
                                    SUPPORTED_IMAGE_EXTENSIONS]
                /\ tabTypeBtn' = [marked EXCEPT !["images"] = TRUE]
           ELSE /\ settings' = [settings EXCEPT !.searchFileTypes = toggled]
                /\ tabTypeBtn' = marked
    /\ saved' = saveSettings(settings')
    /\ UNCHANGED <<tabShown, tabScopeBtn, panels, pendingDisplay, edited, searchVars,
                   loadVars, otherVars>>

\* lines 111-113: the dropdown's onChange(value) up to 'await saveSettings()'
ProviderSelect(value) ==
    /\ tabShown
    /\ Len(pendingDisplay) < MaxPending
    /\ value # settings.activeCloudProvider
    /\ settings' = [settings EXCEPT !.activeCloudProvider = value]
    /\ saved' = saveSettings(settings')
    /\ pendingDisplay' = Append(pendingDisplay, value)
    /\ UNCHANGED <<tabShown, tabScopeBtn, tabTypeBtn, panels, edited, searchVars,
                   loadVars, otherVars>>

\* s without its k-th element
RemoveAt(s, k) == SubSeq(s, 1, k - 1) \o SubSeq(s, k + 1, Len(s))

\* the handler rendering the panel of the value it was called with
ProviderDisplayOfValue(k) ==
    /\ k \in 1..Len(pendingDisplay)
    /\ pendingDisplay' = RemoveAt(pendingDisplay, k)
    /\ tabScopeBtn' = displayScopeBtn(settings)
    /\ tabTypeBtn' = displayTypeBtn(settings)
    /\ panels' = renderCloudProviderSettings(pendingDisplay[k])
    /\ UNCHANGED <<settings, saved, tabShown, edited, searchVars, loadVars,
                   otherVars>>

\* line 114: the k-th waiting handler's saveSettings() is done and the
\* handler calls display()
ProviderDisplay(k) ==
    /\ k \in 1..Len(pendingDisplay)
    /\ pendingDisplay' = RemoveAt(pendingDisplay, k)
    /\ tabScopeBtn' = displayScopeBtn(settings)
    /\ tabTypeBtn' = displayTypeBtn(settings)
    /\ panels' = renderCloudProviderSettings(settings.activeCloudProvider)
    /\ UNCHANGED <<settings, saved, tabShown, edited, searchVars, loadVars,
                   otherVars>>

---------------------------------------------------------------------------
(* The parts of the state a specification leaves at rest *)

InitInsertIdle ==
    /\ activeView = FALSE
    /\ chosen = <<>>
    /\ inserts = <<>>

InitPasteIdle ==
    /\ pasteOpen = FALSE
    /\ response = [choice |-> "undefined", rememberChoice |-> FALSE]
    /\ resolvePromise = 0
    /\ promises = <<>>
    /\ period = [toggle |-> FALSE, clicked |-> "none", toggled |-> FALSE]

InitPureIdle ==
    /\ itemTexts = <<>>
    /\ bytes = 0
    /\ formatted = <<>>
    /\ tag = <<>>
    /\ normalized = <<>>

---------------------------------------------------------------------------
(* SpecGetItems: getItems over every list of items and every filter *)

ExtUniverse ==
    Range(getExtensionsForCategory("all")) \cup {<<"P", "N", "G">>}

InitTab ==
    /\ tabShown = FALSE
    /\ tabScopeBtn = [k \in SearchScope |-> FALSE]
    /\ tabTypeBtn = [c \in TabTypeCategory |-> FALSE]
    /\ panels = {}
    /\ pendingDisplay = <<>>
    /\ edited = {}

InitLoad ==
    /\ runs = <<>>
    /\ apiLog = <<>>
    /\ notices = <<>>

InitGetItems ==
    /\ settings = DEFAULT_SETTINGS
    /\ saved = settings
    /\ activeScopes = newActiveScopes(settings)
    /\ activeFileTypes \in SUBSET ExtUniverse
    /\ allItems \in SeqsUpTo(ItemPool, MaxItems)
    /\ isLoading = FALSE
    /\ modalOpen = TRUE
    /\ uiBuilt = TRUE
    /\ scopeBtn = [s \in SearchScope |-> s \in activeScopes]
    /\ typeBtn = updateTypeButtonStates(activeFileTypes)
    /\ libraryText = [name |-> "Eagle", count |-> Len(allItems)]
    /\ shown = <<>>
    /\ InitTab
    /\ InitLoad
    /\ InitInsertIdle
    /\ InitPasteIdle
    /\ InitPureIdle

NextGetItems ==
    \/ GetItems
    \/ \E category \in FileTypeCategory : TypeButtonClick(category)

SpecGetItems == InitGetItems /\ [][NextGetItems]_vars

\* the positions of xs whose item passes the file-type filter aft
Kept(xs, aft) == {j \in 1..Len(xs) : toLowerCase(xs[j].ext) \in aft}

\* r holds exactly the kept items of xs, each once per occurrence, in xs's order
IsFilterOf(r, xs, aft) ==
    /\ Len(r) = Cardinality(Kept(xs, aft))
    /\ \A j \in Kept(xs, aft) :
          r[Cardinality({k \in Kept(xs, aft) : k <= j})] = xs[j]

\* C1: getItems() returns exactly the items of allItems whose extension,
\* lower-cased, is in activeFileTypes, in their order and multiplicity, for
\* every list and every set of active types, and a getItems() call changes
\* neither allItems nor activeFileTypes.
C1_GetItemsFilters ==
    /\ [](IsFilterOf(getItems, allItems, activeFileTypes))
    /\ [][GetItems => /\ IsFilterOf(shown', allItems, activeFileTypes)
                      /\ UNCHANGED <<allItems, activeFileTypes>>]_vars

\* a call has returned two of three items, one of them with an upper-case
\* extension, and has dropped the third
C1_Witness ==
    /\ Len(allItems) = 3
    /\ Len(shown) = 2
    /\ shown = getItems
    /\ \E i \in 1..2 : shown[i].ext # toLowerCase(shown[i].ext)
    /\ shown[1] = shown[2]

---------------------------------------------------------------------------
(* SpecFilter: the filter buttons of the modal and of the settings tab.    *)
(* The modal keeps Sets and the settings keep arrays, so the two never     *)
(* share an object; the API does not answer while the buttons are clicked. *)

InitFilter ==
    /\ \E scope \in LoadedSearchScopes, types \in LoadedSearchFileTypes :
          settings = [DEFAULT_SETTINGS EXCEPT !.searchScope = scope,
                                              !.searchFileTypes = types]
    /\ saved = settings
    /\ activeScopes = newActiveScopes(settings)
    /\ activeFileTypes = newActiveFileTypes(settings)
    /\ allItems = <<>>
    /\ isLoading = FALSE
    /\ modalOpen = FALSE
    /\ uiBuilt = FALSE
    /\ scopeBtn = [s \in SearchScope |-> FALSE]
    /\ typeBtn = [c \in FileTypeCategory |-> FALSE]
    /\ libraryText = NoLibraryText
    /\ shown = <<>>
    /\ InitTab
    /\ InitLoad
    /\ InitInsertIdle
    /\ InitPasteIdle
    /\ InitPureIdle

\* the scope buttons the user clicks, in the modal and in the tab
ClickedScopes == {"name", "annotation"}

ModalClick ==
    \/ \E scope \in ClickedScopes : ScopeButtonClick(scope)
    \/ \E category \in FileTypeCategory : TypeButtonClick(category)

TabClick ==
    \/ \E key \in ClickedScopes : TabScopeClick(key)
    \/ \E category \in TabTypeCategory : TabTypeClick(category)

NextFilter ==
    \/ NewModal
    \/ OnOpen
    \/ CloseModal
    \/ ModalClick
    \/ Display
    \/ TabClick

SpecFilter == InitFilter /\ [][NextFilter]_vars

\* C8: the modal's filter state is private to it.  A new modal copies
\* settings.searchScope and settings.searchFileTypes; no click on a scope or
\* type button of the modal changes the settings, and no click on a button
\* of the settings tab changes the modal's activeScopes or activeFileTypes.
C8_FilterStatePrivate ==
    [][/\ NewModal => /\ activeScopes' = Range(settings.searchScope)
                      /\ activeFileTypes' = Range(settings.searchFileTypes)
       /\ ModalClick => /\ settings'.searchScope = settings.searchScope
                        /\ settings'.searchFileTypes = settings.searchFileTypes
                        /\ saved' = saved
       /\ TabClick => UNCHANGED <<activeScopes, activeFileTypes>>]_vars

\* the modal and the settings have been clicked apart, in scopes and in types
C8_Witness ==
    /\ modalOpen /\ uiBuilt /\ tabShown
    /\ "name" \in activeScopes /\ "name" \notin Range(settings.searchScope)
    /\ "annotation" \notin activeScopes /\ "annotation" \in Range(settings.searchScope)
    /\ pdf \in activeFileTypes /\ pdf \notin Range(settings.searchFileTypes)
    /\ jpg \notin activeFileTypes /\ jpg \in Range(settings.searchFileTypes)

---------------------------------------------------------------------------
(* SpecLoad: opening the modal and loading its items from the API *)

InitLoadSpec ==
    /\ settings = DEFAULT_SETTINGS
    /\ saved = settings
    /\ activeScopes = newActiveScopes(settings)
    /\ activeFileTypes = newActiveFileTypes(settings)
    /\ allItems = <<>>
    /\ isLoading = FALSE
    /\ modalOpen = FALSE
    /\ uiBuilt = FALSE
    /\ scopeBtn = [s \in SearchScope |-> FALSE]
    /\ typeBtn = [c \in FileTypeCategory |-> FALSE]
    /\ libraryText = NoLibraryText
    /\ shown = <<>>
    /\ InitTab
    /\ InitLoad
    /\ InitInsertIdle
    /\ InitPasteIdle
    /\ InitPureIdle

ApiAnswer ==
    \/ \E i \in 1..MaxCalls, connected \in BOOLEAN : IsConnectedReturn(i, connected)
    \/ \E i \in 1..MaxCalls, name \in LibraryNames : GetLibraryNameReturn(i, name)
    \/ \E i \in 1..MaxCalls, items \in ListPool : ListItemsReturn(i, items)
    \/ \E i \in 1..MaxCalls : ApiThrow(i)

NextLoad ==
    \/ OnOpen
    \/ CloseModal
    \/ ApiAnswer

SpecLoad == InitLoadSpec /\ [][NextLoad]_vars

InFlight == {i \in 1..Len(runs) : runs[i].pc \in Awaiting}

\* the entries of apiLog that run i made, oldest first
LogOf(i) == SelectSeq(apiLog, LAMBDA e : e.run = i)

\* the last entry of a log (of the empty log: no entry)
LastOf(log) == IF log = <<>> THEN Event(0, "-", "-", "-") ELSE log[Len(log)]

\* C4: at most one loadItems invocation is in flight; a loadItems call made
\* while another awaits an API answer returns at once, calls nothing on the
\* API and changes neither allItems nor isLoading.
C4_SingleFlight ==
    /\ [](Cardinality(InFlight) <= 1)
    /\ [][(OnOpen /\ InFlight # {}) =>
            /\ runs'[Len(runs')].pc = "returned"
            /\ InFlight' = InFlight
            /\ apiLog' = apiLog
            /\ allItems' = allItems
            /\ isLoading' = isLoading]_vars

\* a call has returned at once while an earlier one awaits the API
C4_Witness ==
    \E i, j \in 1..Len(runs) :
        i < j /\ runs[i].pc \in Awaiting /\ runs[j].pc = "returned"

ApiOrder == <<"isConnected", "getLibraryName", "listItems">>

\* the log of one run: every call but the first follows the return of the
\* call before it in ApiOrder, no call is made twice
Sequential(log) ==
    /\ \A k \in 1..Len(log) :
          log[k].ev = "call" =>
              \E n \in 1..3 :
                  /\ log[k].api = ApiOrder[n]
                  /\ IF n = 1 THEN k = 1
                     ELSE /\ k > 1
                          /\ log[k - 1] = Event(log[k].run, ApiOrder[n - 1],
                                                "return", log[k - 1].val)
    /\ \A k, m \in 1..Len(log) :
          (log[k].ev = "call" /\ log[m].ev = "call" /\ log[k].api = log[m].api)
              => k = m

\* nothing follows in the log once isConnected has returned false
StopsWhenNotConnected(log) ==
    \A k \in 1..Len(log) :
        log[k] = Event(log[k].run, "isConnected", "return", "false") => k = Len(log)

\* C5: within a run the API calls are sequential and made at most once
\* each; when isConnected returns false the run calls nothing more, the
\* modal is closed, a notice is shown and allItems keeps its value.
C5_SequentialCalls ==
    /\ [](\A i \in 1..Len(runs) :
              Sequential(LogOf(i)) /\ StopsWhenNotConnected(LogOf(i)))
    /\ [][\A i \in 1..Len(runs) :
            IsConnectedReturn(i, FALSE) =>
                /\ ~modalOpen'
                /\ notices' = Append(notices, "not_running")
                /\ allItems' = runs[i].allItemsBefore
                /\ runs'[i].pc = "done"]_vars

\* a run that found items loaded by an earlier run was told Eagle is not
\* running, after an earlier run made all three calls
C5_Witness ==
    \E i, j \in 1..Len(runs) :
        /\ Len(LogOf(i)) = 6
        /\ LastOf(LogOf(j)) = Event(j, "isConnected", "return", "false")
        /\ runs[j].allItemsBefore # <<>>
        /\ allItems = runs[j].allItemsBefore

\* nothing follows a throw in the log of a run
StopsAfterThrow(log) ==
    \A k \in 1..Len(log) : log[k].ev = "throw" => k = Len(log)

\* C6: a throw of isConnected, getLibraryName or listItems is caught: the
\* failure notice is shown, the run makes no further API call, allItems has
\* the value it had before the run, the modal is not closed and the promise
\* onOpen awaits is resolved, not rejected.
C6_ThrowCaught ==
    /\ [](\A i \in 1..Len(runs) :
              /\ StopsAfterThrow(LogOf(i))
              /\ runs[i].result # "rejected"
              /\ runs[i].pc = "failed" => runs[i].result = "resolved")
    /\ [][\A i \in 1..Len(runs) :
            ApiThrow(i) =>
                /\ notices' = Append(notices, "load_failed")
                /\ allItems' = runs[i].allItemsBefore
                /\ modalOpen' = modalOpen
                /\ runs'[i].result = "resolved"]_vars

\* each of the three calls has thrown in some run, one of them in a run that
\* found items loaded before it, with the modal still open
C6_Witness ==
    /\ modalOpen
    /\ \E i \in 1..Len(runs) :
          /\ runs[i].pc = "failed"
          /\ runs[i].allItemsBefore # <<>>
          /\ allItems = runs[i].allItemsBefore
          /\ LastOf(LogOf(i)).api = "listItems"
    /\ \E i \in 1..Len(runs) :
          runs[i].pc = "failed" /\ LastOf(LogOf(i)).api = "getLibraryName"

---------------------------------------------------------------------------
(* ImagePasteChoiceModal.  The caller awaits one response at a time: it    *)
(* asks for the next only when the last promise is resolved.               *)

Choices == {"eagle", "local", "cloud"}

Pending == [state |-> "pending", choice |-> "-", rememberChoice |-> FALSE]

\* lines 452-456
GetResponse ==
    /\ Len(promises) < MaxPromises
    /\ \A p \in 1..Len(promises) : promises[p].state = "resolved"
    /\ promises' = Append(promises, Pending)
    /\ resolvePromise' = Len(promises) + 1
    /\ UNCHANGED <<pasteOpen, response, period>>
    /\ UNCHANGED <<settings, saved, searchVars, tabVars, loadVars, insertVars,
                   pureVars>>

\* lines 400-441: open() shows the modal; onOpen builds the buttons and the
\* toggle, which it sets to false
PasteOnOpen ==
    /\ ~pasteOpen
    /\ pasteOpen' = TRUE
    /\ period' = [toggle |-> FALSE, clicked |-> "none", toggled |-> FALSE]
    /\ UNCHANGED <<response, resolvePromise, promises>>
    /\ UNCHANGED <<settings, saved, searchVars, tabVars, loadVars, insertVars,
                   pureVars>>

\* lines 443-450: the promises after onClose has run with the response r;
\* resolving a promise that is resolved already changes nothing
onClose(r) ==
    IF resolvePromise # 0 /\ promises[resolvePromise].state = "pending"
    THEN [promises EXCEPT ![resolvePromise] =
             [state |-> "resolved",
              choice |-> IF r.choice = "undefined" THEN "cancel" ELSE r.choice,
              rememberChoice |-> r.rememberChoice]]
    ELSE promises

\* lines 413-431: a click on one of the three choice buttons
ChoiceClick(choice) ==
    /\ pasteOpen
    /\ response' = [response EXCEPT !.choice = choice]
    /\ pasteOpen' = FALSE
    /\ promises' = onClose(response')
    /\ period' = [period EXCEPT !.clicked = choice]
    /\ UNCHANGED resolvePromise
    /\ UNCHANGED <<settings, saved, searchVars, tabVars, loadVars, insertVars,
                   pureVars>>

\* lines 436-440: the user flips the toggle
ToggleChange ==
    /\ pasteOpen
    /\ response' = [response EXCEPT !.rememberChoice = ~period.toggle]
    /\ period' = [period EXCEPT !.toggle = ~period.toggle, !.toggled = TRUE]
    /\ UNCHANGED <<pasteOpen, resolvePromise, promises>>
    /\ UNCHANGED <<settings, saved, searchVars, tabVars, loadVars, insertVars,
                   pureVars>>

\* lines 443-450: the user dismisses the modal without a choice
PasteDismiss ==
    /\ pasteOpen
    /\ pasteOpen' = FALSE
    /\ promises' = onClose(response)
    /\ UNCHANGED <<response, resolvePromise, period>>
    /\ UNCHANGED <<settings, saved, searchVars, tabVars, loadVars, insertVars,
                   pureVars>>

InitPaste ==
    /\ settings = DEFAULT_SETTINGS
    /\ saved = settings
    /\ activeScopes = newActiveScopes(settings)
    /\ activeFileTypes = newActiveFileTypes(settings)
    /\ allItems = <<>>
    /\ isLoading = FALSE
    /\ modalOpen = FALSE
    /\ uiBuilt = FALSE
    /\ scopeBtn = [s \in SearchScope |-> FALSE]
    /\ typeBtn = [c \in FileTypeCategory |-> FALSE]
    /\ libraryText = NoLibraryText
    /\ shown = <<>>
    /\ InitTab
    /\ InitLoad
    /\ InitInsertIdle
    /\ InitPasteIdle
    /\ InitPureIdle

NextPaste ==
    \/ GetResponse
    \/ PasteOnOpen
    \/ \E choice \in Choices : ChoiceClick(choice)
    \/ ToggleChange
    \/ PasteDismiss

SpecPaste == InitPaste /\ [][NextPaste]_vars

\* C3: a promise getResponse() returned before the modal closes is resolved
\* at the close and not before; its choice is the button clicked in the open
\* period that the close ends and 'cancel' when none was clicked, and its
\* rememberChoice is the toggle's last value in that period, false when the
\* toggle was not changed in it.
C3_ResponseOfThePeriod ==
    [][/\ \A p \in 1..Len(promises) :
             (promises[p].state = "pending" /\ promises'[p].state = "resolved")
                 => (pasteOpen /\ ~pasteOpen')
       /\ (pasteOpen /\ ~pasteOpen') =>
             \A p \in 1..Len(promises) :
                 promises[p].state = "pending" =>
                     promises'[p] =
                         [state |-> "resolved",
                          choice |-> IF period'.clicked # "none"
                                     THEN period'.clicked ELSE "cancel",
                          rememberChoice |-> period'.toggled /\ period'.toggle]]_vars

\* the same instance was opened again and dismissed without a click, and the
\* promise of the second period carries the first period's choice
C3_StaleChoice ==
    /\ ~pasteOpen
    /\ period.clicked = "none"
    /\ resolvePromise # 0
    /\ promises[resolvePromise].state = "resolved"
    /\ promises[resolvePromise].choice # "cancel"

---------------------------------------------------------------------------
(* EagleSearchModal.insertItemLink.  api.getOriginalFilePath answers a     *)
(* path or null; like every operation of the API service it catches its    *)
(* own errors.                                                             *)

\* what api.getOriginalFilePath(item) may answer: null or "", or a path
OriginalFilePaths == {"", "/lib/images/a b.png"}

\* lines 304-307
pathToFileUrl(path) == <<"file://", path>>

\* lines 272-278: the embed, with the metadata line when insertThumbnail is set
EmbedText(item, filePath, st) ==
    [form |-> "embed", of |-> item.id, url |-> pathToFileUrl(filePath),
     metadata |-> st.insertThumbnail]

\* lines 286-299: the link to the item in Eagle
LinkText(item, st) ==
    [form |-> IF st.insertThumbnail THEN "card"
              ELSE IF st.linkFormat = "wikilink" THEN "wikilink"
              ELSE "markdown",
     of |-> item.id, url |-> <<"eagle://item/", item.id>>, metadata |-> FALSE]

Invocation(item, pc, view, calls) ==
    [item |-> item, pc |-> pc, view |-> view, calls |-> calls, path |-> ""]

Insert(by, text) == [by |-> by, text |-> text]

\* lines 256-270 and 286-301: an item is chosen; insertItemLink runs up to
\* its await, or to its end when it does not await
OnChooseItem(item) ==
    /\ Len(chosen) < MaxChosen
    /\ item \in Range(getItems)
    /\ IF ~activeView
       THEN /\ notices' = Append(notices, "no_editor")
            /\ chosen' = Append(chosen, Invocation(item, "done", FALSE, 0))
            /\ UNCHANGED inserts
       ELSE IF settings.insertAsEmbed
            THEN /\ chosen' = Append(chosen, Invocation(item, "getOriginalFilePath", TRUE, 1))
                 /\ UNCHANGED <<inserts, notices>>
            ELSE /\ chosen' = Append(chosen, Invocation(item, "done", TRUE, 0))
                 /\ inserts' = Append(inserts, Insert(Len(chosen) + 1, LinkText(item, settings)))
                 /\ notices' = Append(notices, "inserted")
    /\ UNCHANGED <<settings, saved, activeView, searchVars, tabVars, runs, apiLog,
                   pasteVars, pureVars>>

\* the embed branch without its return: the link is inserted as well
FilePathReturnFallingThrough(k, filePath) ==
    /\ k \in 1..Len(chosen)
    /\ chosen[k].pc = "getOriginalFilePath"
    /\ chosen' = [chosen EXCEPT ![k].pc = "done", ![k].path = filePath]
    /\ inserts' = IF filePath # ""
                  THEN inserts \o <<Insert(k, EmbedText(chosen[k].item, filePath, settings)),
                                    Insert(k, LinkText(chosen[k].item, settings))>>
                  ELSE Append(inserts, Insert(k, LinkText(chosen[k].item, settings)))
    /\ notices' = Append(notices, "inserted")
    /\ UNCHANGED <<settings, saved, activeView, searchVars, tabVars, runs, apiLog,
                   pasteVars, pureVars>>

\* lines 270-301: getOriginalFilePath() answers
FilePathReturn(k, filePath) ==
    /\ k \in 1..Len(chosen)
    /\ chosen[k].pc = "getOriginalFilePath"
    /\ chosen' = [chosen EXCEPT ![k].pc = "done", ![k].path = filePath]
    /\ IF filePath # ""
       THEN /\ inserts' = Append(inserts, Insert(k, EmbedText(chosen[k].item, filePath, settings)))
            /\ notices' = Append(notices, "embedded")
       ELSE /\ inserts' = Append(inserts, Insert(k, LinkText(chosen[k].item, settings)))
            /\ notices' = Append(notices, "inserted")
    /\ UNCHANGED <<settings, saved, activeView, searchVars, tabVars, runs, apiLog,
                   pasteVars, pureVars>>

\* settings.ts lines 90-95: the 'Include metadata card' toggle of the tab
InsertThumbnailChange ==
    /\ tabShown
    /\ settings' = [settings EXCEPT !.insertThumbnail = ~settings.insertThumbnail]
    /\ saved' = saveSettings(settings')
    /\ UNCHANGED <<searchVars, tabVars, loadVars, otherVars>>

\* the user moves to another view, or back to a Markdown view
ViewChange ==
    /\ activeView' = ~activeView
    /\ UNCHANGED <<settings, saved, chosen, inserts, searchVars, tabVars, loadVars,
                   pasteVars, pureVars>>

InitInsert ==
    /\ \E embed \in BOOLEAN, thumbnail \in BOOLEAN,
          format \in {"wikilink", "markdown"} :
          settings = [DEFAULT_SETTINGS EXCEPT !.insertAsEmbed = embed,
                                              !.insertThumbnail = thumbnail,
                                              !.linkFormat = format]
    /\ saved = settings
    /\ activeScopes = newActiveScopes(settings)
    /\ activeFileTypes = newActiveFileTypes(settings)
    /\ allItems = <<EagleItem(1, <<"P", "N", "G">>), EagleItem(2, jpg), EagleItem(3, mp4)>>
    /\ isLoading = FALSE
    /\ modalOpen = TRUE
    /\ uiBuilt = TRUE
    /\ scopeBtn = [s \in SearchScope |-> s \in activeScopes]
    /\ typeBtn = updateTypeButtonStates(activeFileTypes)
    /\ libraryText = [name |-> "Eagle", count |-> 3]
    /\ shown = <<>>
    /\ tabShown = TRUE
    /\ tabScopeBtn = displayScopeBtn(settings)
    /\ tabTypeBtn = displayTypeBtn(settings)
    /\ panels = renderCloudProviderSettings(settings.activeCloudProvider)
    /\ pendingDisplay = <<>>
    /\ edited = {}
    /\ InitLoad
    /\ activeView \in BOOLEAN
    /\ chosen = <<>>
    /\ inserts = <<>>
    /\ InitPasteIdle
    /\ InitPureIdle

NextInsert ==
    \/ \E item \in ItemPool : OnChooseItem(item)
    \/ \E k \in 1..MaxChosen, filePath \in OriginalFilePaths : FilePathReturn(k, filePath)
    \/ InsertThumbnailChange
    \/ ViewChange

SpecInsert == InitInsert /\ [][NextInsert]_vars

InsertsBy(k) == SelectSeq(inserts, LAMBDA e : e.by = k)

\* C2: an item chosen with no Markdown view active inserts nothing and calls
\* no API; otherwise exactly one replaceSelection happens, and its text is an
\* embed if and only if insertAsEmbed is set and getOriginalFilePath gave a
\* non-empty path; every other text is the link card when insertThumbnail is
\* set, else a wikilink when linkFormat is 'wikilink', else a markdown link.
C2_OneInsertion ==
    /\ [](\A k \in 1..Len(chosen) :
            LET c == chosen[k]
                ins == InsertsBy(k)
            IN  /\ Len(ins) <= 1
                /\ ~c.view => (ins = <<>> /\ c.calls = 0 /\ c.pc = "done")
                /\ (c.view /\ c.pc = "done") =>
                      /\ Len(ins) = 1
                      /\ ins[1].text.form \in {"embed", "card", "wikilink", "markdown"}
                      /\ ins[1].text.form = "embed"
                            <=> (settings.insertAsEmbed /\ c.path # ""))
    /\ [][Len(inserts') > Len(inserts) =>
            LET text == inserts'[Len(inserts')].text
            IN  text.form # "embed" =>
                    text.form = IF settings.insertThumbnail THEN "card"
                                ELSE IF settings.linkFormat = "wikilink"
                                     THEN "wikilink" ELSE "markdown"]_vars

\* two items were chosen with insertAsEmbed set: one got a path and was
\* embedded, the other got none and was linked
C2_Witness ==
    /\ Len(chosen) = 2
    /\ \A k \in 1..2 : chosen[k].view /\ chosen[k].pc = "done" /\ chosen[k].calls = 1
    /\ \E k \in 1..2 : InsertsBy(k)[1].text.form = "embed"
    /\ \E k \in 1..2 : InsertsBy(k)[1].text.form = "wikilink"

---------------------------------------------------------------------------
(* SpecTab: the settings tab and its cloud provider dropdown *)

\* provider configurations data.json may hold when the plugin loads
LoadedCloudProviders ==
    {DefaultCloudProviders,
     [DefaultCloudProviders EXCEPT
        !.r2 = [workerUrl |-> <<"w">>, apiKey |-> <<"k">>, publicUrl |-> <<>>,
                enabled |-> TRUE],
        !.custom = [uploadUrl |-> <<"u">>, publicUrl |-> <<>>, enabled |-> TRUE]]}

InitTabSpec ==
    /\ \E provider \in CloudProviderType, providers \in LoadedCloudProviders :
          settings = [DEFAULT_SETTINGS EXCEPT !.activeCloudProvider = provider,
                                              !.cloudProviders = providers]
    /\ saved = settings
    /\ activeScopes = newActiveScopes(settings)
    /\ activeFileTypes = newActiveFileTypes(settings)
    /\ allItems = <<>>
    /\ isLoading = FALSE
    /\ modalOpen = FALSE
    /\ uiBuilt = FALSE
    /\ scopeBtn = [s \in SearchScope |-> FALSE]
    /\ typeBtn = [c \in FileTypeCategory |-> FALSE]
    /\ libraryText = NoLibraryText
    /\ shown = <<>>
    /\ InitTab
    /\ InitLoad
    /\ InitInsertIdle
    /\ InitPasteIdle
    /\ InitPureIdle

NextTab ==
    \/ Display
    \/ \E value \in CloudProviderType : ProviderSelect(value)
    \/ \E k \in 1..MaxPending : ProviderDisplay(k)
    \/ InsertThumbnailChange

SpecTab == InitTabSpec /\ [][NextTab]_vars

\* the heading of each provider's panel
PanelOf ==
    [r2 |-> "Cloudflare R2 Settings", imghippo |-> "ImgHippo Settings",
     s3 |-> "Amazon S3 Settings", webdav |-> "WebDAV Settings",
     custom |-> "Custom Server Settings"]

\* C7: the tab shows exactly one provider panel, that of
\* settings.activeCloudProvider, which is one of the five providers.  A
\* selection in the dropdown sets activeCloudProvider, saves and leaves every
\* provider's configuration as it is; when its handler completes (also with
\* another selection made meanwhile) the panel shown is that of the current
\* activeCloudProvider.
C7_ActivePanel ==
    /\ [](/\ settings.activeCloudProvider \in CloudProviderType
          /\ tabShown => Cardinality(panels) = 1
          /\ (tabShown /\ pendingDisplay = <<>>) =>
                panels = {PanelOf[settings.activeCloudProvider]})
    /\ [][/\ \A value \in CloudProviderType :
                ProviderSelect(value) =>
                    /\ settings'.activeCloudProvider = value
                    /\ saved'.activeCloudProvider = value
                    /\ settings'.cloudProviders = settings.cloudProviders
                    /\ saved'.cloudProviders = saved.cloudProviders
          /\ \A k \in 1..MaxPending :
                ProviderDisplay(k) =>
                    panels' = {PanelOf[settings'.activeCloudProvider]}]_vars

\* two selections were made in quick succession from a tab with a configured
\* provider; the first handler has completed, the second has not
C7_Witness ==
    /\ tabShown
    /\ Len(pendingDisplay) = 1
    /\ settings.activeCloudProvider = pendingDisplay[1]
    /\ panels = {PanelOf[settings.activeCloudProvider]}
    /\ saved.activeCloudProvider = "webdav"
    /\ settings.cloudProviders.r2.enabled

---------------------------------------------------------------------------
(* EagleSearchModal.formatFileSize *)

DigitChars == <<"0", "1", "2", "3", "4", "5", "6", "7", "8", "9">>

\* the decimal digits of the natural number n, as `${n}` prints them
RECURSIVE Digits(_)
Digits(n) ==
    IF n < 10 THEN <<DigitChars[n + 1]>>
    ELSE Append(Digits(n \div 10), DigitChars[(n % 10) + 1])

\* (b / den).toFixed(1) for naturals b and an even den: the quotient is exact
\* in a double, and toFixed takes the nearest tenth, the larger of two
Tenths(b, den) ==
    10 * (b \div den) + ((10 * (b % den) + (den \div 2)) \div den)

toFixed1(b, den) ==
    Digits(Tenths(b, den) \div 10) \o <<".", DigitChars[(Tenths(b, den) % 10) + 1]>>

\* formatFileSize with the bounds of its ranges taken into the lower range
formatFileSizeInclusive(b) ==
    IF b <= 1024 THEN Digits(b) \o <<" ", "B">>
    ELSE IF b <= 1024 * 1024 THEN toFixed1(b, 1024) \o <<" ", "K", "B">>
    ELSE toFixed1(b, 1024 * 1024) \o <<" ", "M", "B">>

\* lines 350-354
formatFileSize(b) ==
    IF b < 1024 THEN Digits(b) \o <<" ", "B">>
    ELSE IF b < 1024 * 1024 THEN toFixed1(b, 1024) \o <<" ", "K", "B">>
    ELSE toFixed1(b, 1024 * 1024) \o <<" ", "M", "B">>

\* byte counts around each threshold, a tie of the rounding, and large ones
ByteInputs ==
    (0..ByteWindow)
        \cup ((1024 - ByteWindow)..(1024 + ByteWindow))
        \cup ((1024 * 1024 - ByteWindow)..(1024 * 1024 + ByteWindow))
        \cup {1280, 1536, 500000, 5 * 1024 * 1024, 1024 * 1024 * 1024,
              1024 * 1024 * 1024 + ByteWindow, 2147483647}

\* line 239: a suggestion is rendered for an item of size bytes
FormatFileSize ==
    /\ formatted' = formatFileSize(bytes)
    /\ UNCHANGED <<itemTexts, bytes, tag, normalized>>
    /\ UNCHANGED <<settings, saved, searchVars, tabVars, loadVars, insertVars,
                   pasteVars>>

InitModalLoaded ==
    /\ saved = settings
    /\ activeScopes = newActiveScopes(settings)
    /\ activeFileTypes = newActiveFileTypes(settings)
    /\ allItems = <<>>
    /\ isLoading = FALSE
    /\ modalOpen = TRUE
    /\ uiBuilt = TRUE
    /\ scopeBtn = [s \in SearchScope |-> s \in activeScopes]
    /\ typeBtn = updateTypeButtonStates(activeFileTypes)
    /\ libraryText = [name |-> "Eagle", count |-> 0]
    /\ shown = <<>>
    /\ InitTab
    /\ InitLoad
    /\ InitInsertIdle
    /\ InitPasteIdle

InitFmt ==
    /\ settings = DEFAULT_SETTINGS
    /\ InitModalLoaded
    /\ itemTexts = <<>>
    /\ bytes \in ByteInputs
    /\ formatted = <<>>
    /\ tag = <<>>
    /\ normalized = <<>>

NextFmt == FormatFileSize

SpecFmt == InitFmt /\ [][NextFmt]_vars

Abs(x) == IF x < 0 THEN -x ELSE x

\* the tenth nearest to r / den for 0 <= r < den: t of 0..10 with t / 10
\* closest to r / den, the larger of two
NearestTenth(r, den) ==
    CHOOSE t \in 0..10 :
        \A u \in 0..10 :
            \/ Abs(t * den - 10 * r) < Abs(u * den - 10 * r)
            \/ Abs(t * den - 10 * r) = Abs(u * den - 10 * r) /\ t >= u

\* b / den rounded to one decimal, in tenths
Rounded(b, den) == 10 * (b \div den) + NearestTenth(b % den, den)

\* the text of a number of n tenths
Decimal(n) == Digits(n \div 10) \o <<".">> \o Digits(n % 10)

\* the first three sentences of C9, of the byte count b and the text out
ByThresholds(b, out) ==
    /\ b < 1024 => out = Digits(b) \o <<" ", "B">>
    /\ (1024 <= b /\ b < 1024 * 1024) =>
          out = Decimal(Rounded(b, 1024)) \o <<" ", "K", "B">>
    /\ b >= 1024 * 1024 =>
          out = Decimal(Rounded(b, 1024 * 1024)) \o <<" ", "M", "B">>

IsKB(out) == Len(out) > 3 /\ SubSeq(out, Len(out) - 2, Len(out)) = <<" ", "K", "B">>

\* the number of tenths a text "d...d.d XB" prints
RECURSIVE NumberOf(_)
NumberOf(digits) ==
    IF digits = <<>> THEN 0
    ELSE LET d == digits[Len(digits)]
             v == CHOOSE k \in 0..9 : DigitChars[k + 1] = d
         IN  10 * NumberOf(SubSeq(digits, 1, Len(digits) - 1)) + v

PrintedTenths(out) ==
    NumberOf(SelectSeq(SubSeq(out, 1, Len(out) - 3), LAMBDA c : c # "."))

\* C9 as claimed: the unit follows the thresholds 1024 and 1024*1024, the
\* number is the byte count over the unit rounded to one decimal, and the
\* number printed with ' KB' is always less than 1024.
C9_KBBelow1024 ==
    formatted # <<>> =>
        /\ ByThresholds(bytes, formatted)
        /\ IsKB(formatted) => PrintedTenths(formatted) < 10240

\* C9 as amended: the unit follows the thresholds 1024 and 1024*1024, the
\* number is the byte count over the unit rounded to one decimal; the number
\* printed with ' KB' is at most 1024.0, and it is 1024.0 exactly for the
\* byte counts from 1048525 to 1048575.
C9_KBAtMost1024 ==
    formatted # <<>> =>
        /\ ByThresholds(bytes, formatted)
        /\ IsKB(formatted) =>
              /\ PrintedTenths(formatted) <= 10240
              /\ PrintedTenths(formatted) = 10240
                    <=> (1048525 <= bytes /\ bytes <= 1048575)

\* the largest byte count below the MB threshold was formatted: "1024.0 KB"
C9_Witness ==
    /\ bytes = 1024 * 1024 - 1
    /\ formatted = <<"1", "0", "2", "4", ".", "0", " ", "K", "B">>

---------------------------------------------------------------------------
(* EagleSearchModal.normalizeTag *)

\* what \s matches, among the characters of the model
Whitespace == {" ", "\t"}

TagChars == {"a", "A", "-"} \cup Whitespace

\* tag.replace(/\s/g, '-'): a '-' for every whitespace character
replaceEachWhitespace(s) ==
    [i \in 1..Len(s) |-> IF s[i] \in Whitespace THEN "-" ELSE s[i]]

\* s without the whitespace it starts with
RECURSIVE SkipWhitespace(_)
SkipWhitespace(s) ==
    IF s # <<>> /\ Head(s) \in Whitespace THEN SkipWhitespace(Tail(s)) ELSE s

\* line 340: tag.replace(/\s+/g, '-'), scanning from the left
RECURSIVE replaceWhitespaceRuns(_)
replaceWhitespaceRuns(s) ==
    IF s = <<>> THEN <<>>
    ELSE IF Head(s) \in Whitespace
         THEN <<"-">> \o replaceWhitespaceRuns(SkipWhitespace(s))
         ELSE <<Head(s)>> \o replaceWhitespaceRuns(Tail(s))

\* lines 339-348, for the settings st
normalizeTag(t, st) ==
    LET replaced == replaceWhitespaceRuns(t)
        cased == IF st.tagNormalization = "lowercase"
                 THEN toLowerCase(replaced) ELSE replaced
    IN  IF st.tagPrefix # <<>>
        THEN st.tagPrefix \o <<"/">> \o cased
        ELSE cased

\* lines 313 and 322: buildMetadataLine or buildLinkCard normalizes the tag
NormalizeTag ==
    /\ normalized' = normalizeTag(tag, settings)
    /\ UNCHANGED <<itemTexts, tag, bytes, formatted>>
    /\ UNCHANGED <<settings, saved, searchVars, tabVars, loadVars, insertVars,
                   pasteVars>>

\* the tag settings data.json may hold when the plugin loads
LoadedTagNormalizations == {"lowercase", "none"}
LoadedTagPrefixes == {<<>>, <<"e">>, <<"A", " ">>}

InitTag ==
    /\ \E normalization \in LoadedTagNormalizations, prefix \in LoadedTagPrefixes :
          settings = [DEFAULT_SETTINGS EXCEPT !.tagNormalization = normalization,
                                              !.tagPrefix = prefix]
    /\ InitModalLoaded
    /\ itemTexts = <<>>
    /\ bytes = 0
    /\ formatted = <<>>
    /\ tag \in SeqsUpTo(TagChars, MaxTagLen)
    /\ normalized = <<>>

NextTag == NormalizeTag

SpecTag == InitTag /\ [][NextTag]_vars

\* the positions of t that survive: every character that is no whitespace,
\* and the first character of every maximal run of whitespace
RunStarts(t) ==
    {i \in 1..Len(t) : t[i] \notin Whitespace \/ i = 1 \/ t[i - 1] \notin Whitespace}

\* the i-th smallest element of the set S of positions
Nth(S, i) == CHOOSE j \in S : Cardinality({k \in S : k <= j}) = i

\* t with every maximal run of whitespace replaced by one '-'
RunsReplaced(t) ==
    [i \in 1..Cardinality(RunStarts(t)) |->
        IF t[Nth(RunStarts(t), i)] \in Whitespace THEN "-"
        ELSE t[Nth(RunStarts(t), i)]]

NoWhitespace(s) == \A i \in 1..Len(s) : s[i] \notin Whitespace

\* C10: normalizeTag replaces every maximal run of whitespace by one '-',
\* lower-cases the result exactly when tagNormalization is 'lowercase' and
\* prepends tagPrefix and '/' exactly when tagPrefix is not empty; with a
\* prefix free of whitespace the result holds no whitespace, and with an
\* empty prefix normalizeTag is idempotent.
C10_NormalizeTag ==
    LET out == normalizeTag(tag, settings)
        cased == IF settings.tagNormalization = "lowercase"
                 THEN [i \in 1..Len(RunsReplaced(tag)) |-> LowerChar(RunsReplaced(tag)[i])]
                 ELSE RunsReplaced(tag)
    IN  /\ settings.tagPrefix = <<>> => out = cased
        /\ settings.tagPrefix # <<>> => out = settings.tagPrefix \o <<"/">> \o cased
        /\ NoWhitespace(settings.tagPrefix) => NoWhitespace(out)
        /\ settings.tagPrefix = <<>> => normalizeTag(out, settings) = out
        /\ normalized # <<>> => normalized = out

\* a tag with a run of two whitespace characters and an upper-case letter was
\* normalized with lower-casing and a prefix
C10_Witness ==
    /\ tag = <<"A", " ", "\t", "a">>
    /\ settings.tagNormalization = "lowercase"
    /\ settings.tagPrefix = <<"e">>
    /\ normalized = <<"e", "/", "a", "-", "a">>

---------------------------------------------------------------------------
(* SpecLoadFair: SpecLoad where every API call that is awaited is answered. *)
(* The promise of an awaited call settles (it returns or throws) and the   *)
(* event loop then resumes the run: weak fairness of the API's answers.    *)

SpecLoadFair == InitLoadSpec /\ [][NextLoad]_vars /\ WF_vars(ApiAnswer)

\* C11: loading always ends.  Provided every API call of a run returns or
\* throws, isLoading becomes false again after it was set, and every run
\* that awaits an API call leaves its awaits, so the in-flight guard blocks
\* no later loadItems call forever.
C11_LoadingEnds ==
    /\ isLoading ~> ~isLoading
    /\ \A i \in 1..MaxCalls : (i \in InFlight) ~> (i \notin InFlight)

\* a run ended in the catch block, and a later loadItems call got past the
\* guard and awaits the API
C11_Witness ==
    /\ Len(runs) >= 2
    /\ runs[1].pc = "failed"
    /\ runs[2].pc \in Awaiting
    /\ isLoading

---------------------------------------------------------------------------
(* EagleSearchModal.getItemText: the text the fuzzy matcher searches.  An  *)
(* item carries a name, tags, an annotation and folders; the characters of *)
(* each field are its own, so that the text tells the fields it holds.     *)

\* Array.prototype.join: the parts with sep between them
RECURSIVE join(_, _)
join(parts, sep) ==
    IF parts = <<>> THEN <<>>
    ELSE IF Len(parts) = 1 THEN parts[1]
    ELSE parts[1] \o sep \o join(Tail(parts), sep)

\* the fields of an item the API may list ("" for no name, no annotation,
\* and for a tag with no text)
ItemNames == {<<>>, <<"n">>}
ItemTags == {<<>>, <<<<>>>>, <<<<"t">>>>, <<<<"t">>, <<"u">>>>}
ItemAnnotations == {<<>>, <<"a">>}
ItemFolders == {<<>>, <<<<"f">>>>, <<<<"f">>, <<"g">>>>}

TextItemPool ==
    [id : {1}, ext : {png}, name : ItemNames, tags : ItemTags,
     annotation : ItemAnnotations, folders : ItemFolders]

\* getItemText with no fallback to the name when no field contributes
getItemTextNoFallback(item, scopes) ==
    LET p1 == IF "name" \in scopes THEN <<item.name>> ELSE <<>>
        p2 == IF "tags" \in scopes /\ Len(item.tags) > 0
              THEN Append(p1, join(item.tags, <<" ">>)) ELSE p1
        p3 == IF "annotation" \in scopes /\ item.annotation # <<>>
              THEN Append(p2, item.annotation) ELSE p2
        p4 == IF "folders" \in scopes /\ Len(item.folders) > 0
              THEN Append(p3, join(item.folders, <<"/">>)) ELSE p3
    IN  join(p4, <<" ">>)

\* lines 210-227, with the modal's activeScopes as scopes
getItemText(item, scopes) ==
    LET p1 == IF "name" \in scopes THEN <<item.name>> ELSE <<>>
        p2 == IF "tags" \in scopes /\ Len(item.tags) > 0
              THEN Append(p1, join(item.tags, <<" ">>)) ELSE p1
        p3 == IF "annotation" \in scopes /\ item.annotation # <<>>
              THEN Append(p2, item.annotation) ELSE p2
        p4 == IF "folders" \in scopes /\ Len(item.folders) > 0
              THEN Append(p3, join(item.folders, <<"/">>)) ELSE p3
        text == join(p4, <<" ">>)
    IN  IF text # <<>> THEN text ELSE item.name

\* the matcher asks for the text of one of the items getItems returned
GetItemText(item) ==
    /\ modalOpen
    /\ item \in Range(getItems)
    /\ itemTexts' = <<[item |-> item, scopes |-> activeScopes,
                      text |-> getItemText(item, activeScopes)]>>
    /\ UNCHANGED <<settings, saved, searchVars, tabVars, loadVars, insertVars,
                   pasteVars, bytes, formatted, tag, normalized>>

\* the modal is open on the one item listItems answered
InitText ==
    /\ \E scope \in LoadedSearchScopes :
          settings = [DEFAULT_SETTINGS EXCEPT !.searchScope = scope]
    /\ saved = settings
    /\ activeScopes = newActiveScopes(settings)
    /\ activeFileTypes = newActiveFileTypes(settings)
    /\ \E item \in TextItemPool : allItems = <<item>>
    /\ isLoading = FALSE
    /\ modalOpen = TRUE
    /\ uiBuilt = TRUE
    /\ scopeBtn = [s \in SearchScope |-> s \in activeScopes]
    /\ typeBtn = updateTypeButtonStates(activeFileTypes)
    /\ libraryText = [name |-> "Eagle", count |-> 1]
    /\ shown = <<>>
    /\ InitTab
    /\ InitLoad
    /\ InitInsertIdle
    /\ InitPasteIdle
    /\ InitPureIdle

NextText ==
    \/ \E scope \in SearchScope : ScopeButtonClick(scope)
    \/ \E item \in TextItemPool : GetItemText(item)

SpecText == InitText /\ [][NextText]_vars

\* the four fields in the order getItemText visits them
TextFields == <<"name", "tags", "annotation", "folders">>

\* the text of a field: tags are joined by spaces, folders by '/'
FieldText(item, f) ==
    CASE f = "name" -> item.name
      [] f = "tags" -> join(item.tags, <<" ">>)
      [] f = "annotation" -> item.annotation
      [] f = "folders" -> join(item.folders, <<"/">>)

\* the texts, in order, of the fields of item that satisfy Holds
TextsOf(item, Holds(_)) ==
    LET fs == SelectSeq(TextFields, Holds)
    IN  [i \in 1..Len(fs) |-> FieldText(item, fs[i])]

\* the item's name shows in the text (only the name holds the character n)
HasName(text) == "n" \in Range(text)

\* C12 as claimed: the text of an item is the space-joined concatenation, in
\* the order name, tags, annotation, folders, of exactly the fields whose
\* scope is active and which are non-empty, and it holds the item's name
\* only if 'name' is an active scope.
C12_OnlyActiveFields ==
    \A i \in 1..Len(itemTexts) :
        LET c == itemTexts[i]
            Active(f) == f \in c.scopes /\ FieldText(c.item, f) # <<>>
        IN  /\ c.text = join(TextsOf(c.item, Active), <<" ">>)
            /\ HasName(c.text) => "name" \in c.scopes

\* C12 as amended: the text is the space-joined concatenation, in the order
\* name, tags, annotation, folders, of the name when 'name' is active (also
\* an empty name), the tags when 'tags' is active and the item has a tag,
\* the annotation when 'annotation' is active and it is non-empty, and the
\* folders when 'folders' is active and the item has a folder; when that
\* concatenation is the empty string the text is the item's name.  So a
\* non-empty name is in the text exactly if 'name' is active or no active
\* field gives any text.
C12_ActiveFieldsOrName ==
    \A i \in 1..Len(itemTexts) :
        LET c == itemTexts[i]
            Pushed(f) ==
                /\ f \in c.scopes
                /\ CASE f = "name" -> TRUE
                     [] f = "tags" -> c.item.tags # <<>>
                     [] f = "annotation" -> c.item.annotation # <<>>
                     [] f = "folders" -> c.item.folders # <<>>
            joined == join(TextsOf(c.item, Pushed), <<" ">>)
            GivesText(f) == f \in c.scopes /\ FieldText(c.item, f) # <<>>
        IN  /\ c.text = IF joined = <<>> THEN c.item.name ELSE joined
            /\ HasName(c.text)
                 <=> /\ c.item.name # <<>>
                     /\ \/ "name" \in c.scopes
                        \/ \A f \in Range(TextFields) : ~GivesText(f)

\* with only 'tags' active, the text of an item that has no tag is its name
C12_Witness ==
    /\ Len(itemTexts) = 1
    /\ itemTexts[1].scopes = {"tags"}
    /\ itemTexts[1].item.tags = <<>>
    /\ itemTexts[1].item.name = <<"n">>
    /\ itemTexts[1].text = <<"n">>

---------------------------------------------------------------------------
(* C13, under SpecFilter: the filters are never emptied by clicking *)

NoDuplicate(s) == \A i, j \in 1..Len(s) : s[i] = s[j] => i = j

ImageExtensions == Range(SUPPORTED_IMAGE_EXTENSIONS)

\* every filter holds something, and the scope list holds no scope twice
FiltersNotEmpty ==
    /\ activeScopes # {}
    /\ activeFileTypes # {}
    /\ settings.searchScope # <<>>
    /\ settings.searchFileTypes # <<>>
    /\ NoDuplicate(settings.searchScope)

\* a click on the only active scope, in the modal and in the tab
LastScopeClick ==
    /\ \A scope \in SearchScope :
          ScopeButtonClick(scope) /\ activeScopes = {scope}
              => UNCHANGED <<activeScopes, scopeBtn, settings, saved>>
    /\ \A key \in SearchScope :
          TabScopeClick(key) /\ settings.searchScope = <<key>>
              => UNCHANGED <<settings, saved, tabScopeBtn, activeScopes>>

\* a click on a type button whose category holds all the active file types
LastTypesClick ==
    /\ \A category \in TabTypeCategory :
          /\ TypeButtonClick(category)
          /\ activeFileTypes \subseteq Range(getExtensionsForCategory(category))
          => activeFileTypes' = ImageExtensions
    /\ \A category \in TabTypeCategory :
          /\ TabTypeClick(category)
          /\ hasAll(settings, category)
          /\ Range(settings.searchFileTypes)
                \subseteq Range(getExtensionsForCategory(category))
          => settings'.searchFileTypes = SUPPORTED_IMAGE_EXTENSIONS

\* C13: the search filters can never be emptied by clicking.  After any
\* clicks on scope and type buttons, in the modal and in the settings tab,
\* at least one scope and at least one file type is active; a click on the
\* only active scope changes nothing; a click that would remove the last
\* file types leaves exactly SUPPORTED_IMAGE_EXTENSIONS; the settings scope
\* list never holds a duplicate.
C13_FiltersNeverEmpty ==
    /\ []FiltersNotEmpty
    /\ [][LastScopeClick /\ LastTypesClick]_vars

\* every filter is down to its last element, and none is as it was loaded
C13_Witness ==
    /\ modalOpen /\ uiBuilt /\ tabShown
    /\ activeScopes = {"name"}
    /\ settings.searchScope = <<"name">>
    /\ activeFileTypes = {mp4}
    /\ settings.searchFileTypes = <<pdf>>

---------------------------------------------------------------------------
(* C14, under SpecFilter: the 'All' type button of the modal *)

AllExtensions == Range(getExtensionsForCategory("all"))

\* C14: a click on the 'All' type button of the modal, when at least one but
\* not every supported extension is active, makes activeFileTypes the union
\* of the image, video and document extensions; when every supported
\* extension is active it resets activeFileTypes to the image extensions.
\* After every type-button click each of the four buttons carries the active
\* mark exactly if isTypeCategoryActive holds for its category.
C14_AllButton ==
    [][/\ TypeButtonClick("all") =>
            /\ (/\ activeFileTypes \cap AllExtensions # {}
                /\ ~(AllExtensions \subseteq activeFileTypes))
                  => activeFileTypes' = AllExtensions
            /\ AllExtensions \subseteq activeFileTypes
                  => activeFileTypes' = ImageExtensions
       /\ \A category \in FileTypeCategory :
            TypeButtonClick(category) =>
                \A c \in FileTypeCategory :
                    typeBtn'[c] <=> isTypeCategoryActive(activeFileTypes', c)]_vars

---------------------------------------------------------------------------
(* CMDSPACEEagleSettingTab: the text fields of the provider panels.  Each  *)
(* field's onChange stores the text and, for some fields, recomputes the   *)
(* provider's enabled flag.                                                *)

\* String.prototype.trim
RECURSIVE trimStart(_)
trimStart(s) ==
    IF s # <<>> /\ Head(s) \in Whitespace THEN trimStart(Tail(s)) ELSE s

RECURSIVE trimEnd(_)
trimEnd(s) ==
    IF s # <<>> /\ s[Len(s)] \in Whitespace
    THEN trimEnd(SubSeq(s, 1, Len(s) - 1)) ELSE s

trim(s) == trimEnd(trimStart(s))

startsWith(s, prefix) ==
    Len(s) >= Len(prefix) /\ SubSeq(s, 1, Len(prefix)) = prefix

\* s.replace(/\/$/, ''): s without one '/' at its end
stripSlash(s) ==
    IF s # <<>> /\ s[Len(s)] = "/" THEN SubSeq(s, 1, Len(s) - 1) ELSE s

http == <<"h", "t", "t", "p">>
https == <<"h", "t", "t", "p", "s", ":", "/", "/">>
eagleUploads == <<"/", "e", "a", "g", "l", "e", "-", "u", "p", "l", "o", "a", "d", "s">>

\* the text fields of each provider's panel
ProviderFields ==
    [r2       |-> {"workerUrl", "apiKey", "publicUrl"},
     imghippo |-> {"apiKey"},
     s3       |-> {"endpoint", "region", "bucket", "accessKeyId",
                   "secretAccessKey", "publicUrl"},
     webdav   |-> {"serverUrl", "username", "password", "uploadPath",
                   "publicUrl"},
     custom   |-> {"uploadUrl", "publicUrl"}]

\* the providers cp with field of provider set to v
store(cp, provider, field, v) ==
    [cp EXCEPT ![provider] = [@ EXCEPT ![field] = v]]

\* the same, with the provider's enabled flag set to e
storeEnabled(cp, provider, field, v, e) ==
    [cp EXCEPT ![provider] = [@ EXCEPT ![field] = v, !.enabled = e]]

\* onChange in which only the handler of R2's worker URL and the handlers
\* of the single-credential providers recompute enabled
onChangeKeyNotEnabling(cp, provider, field, value) ==
    LET t == trim(value)
    IN  CASE provider = "r2" /\ field = "workerUrl" ->
               LET url == stripSlash(IF t # <<>> /\ ~startsWith(t, http)
                                     THEN https \o t ELSE t)
               IN  storeEnabled(cp, provider, field, url,
                                url # <<>> /\ cp.r2.apiKey # <<>>)
          [] provider = "r2" /\ field = "publicUrl" ->
               store(cp, provider, field, stripSlash(t))
          [] provider \in {"imghippo", "custom"} /\ field \in {"apiKey", "uploadUrl"} ->
               storeEnabled(cp, provider, field, t, t # <<>>)
          [] provider = "webdav" /\ field = "password" ->
               store(cp, provider, field, value)
          [] provider = "webdav" /\ field = "uploadPath" ->
               store(cp, provider, field, IF t # <<>> THEN t ELSE eagleUploads)
          [] OTHER ->
               store(cp, provider, field, t)

\* settings.ts lines 169-207, 224-234, 258-317, 327-380, 390-410: onChange
\* of the text field of provider, called with value; the providers after it
onChange(cp, provider, field, value) ==
    LET t == trim(value)
    IN  CASE provider = "r2" /\ field = "workerUrl" ->
               LET url == stripSlash(IF t # <<>> /\ ~startsWith(t, http)
                                     THEN https \o t ELSE t)
               IN  storeEnabled(cp, provider, field, url,
                                url # <<>> /\ cp.r2.apiKey # <<>>)
          [] provider = "r2" /\ field = "apiKey" ->
               storeEnabled(cp, provider, field, t,
                            cp.r2.workerUrl # <<>> /\ t # <<>>)
          [] provider = "r2" /\ field = "publicUrl" ->
               store(cp, provider, field, stripSlash(t))
          [] provider \in {"imghippo", "custom"} /\ field \in {"apiKey", "uploadUrl"} ->
               storeEnabled(cp, provider, field, t, t # <<>>)
          [] provider = "s3" /\ field = "secretAccessKey" ->
               storeEnabled(cp, provider, field, t,
                            /\ cp.s3.endpoint # <<>>
                            /\ cp.s3.accessKeyId # <<>>
                            /\ t # <<>>)
          [] provider = "webdav" /\ field = "password" ->
               storeEnabled(cp, provider, field, value,
                            /\ cp.webdav.serverUrl # <<>>
                            /\ cp.webdav.username # <<>>
                            /\ value # <<>>)
          [] provider = "webdav" /\ field = "uploadPath" ->
               store(cp, provider, field, IF t # <<>> THEN t ELSE eagleUploads)
          [] OTHER ->
               store(cp, provider, field, t)

\* the panel each provider's switch case renders
panelOfProvider(provider) ==
    CHOOSE panel \in renderCloudProviderSettings(provider) : TRUE

\* the user changes the text of a field of the panel on screen
TextChange(provider, field, value) ==
    /\ tabShown
    /\ panelOfProvider(provider) \in panels
    /\ field \in ProviderFields[provider]
    /\ settings' = [settings EXCEPT !.cloudProviders =
                        onChange(@, provider, field, value)]
    /\ saved' = saveSettings(settings')
    /\ edited' = edited \cup {<<provider, field>>}
    /\ UNCHANGED <<tabShown, tabScopeBtn, tabTypeBtn, panels, pendingDisplay,
                   searchVars, loadVars, otherVars>>

\* what the user types into a field: nothing, blanks or a key; into a URL
\* field also a host with a slash at its end, and into the worker URL an
\* address of four characters and a slash
TypedValues(field) ==
    CASE field = "workerUrl" ->
           {<<>>, <<" ">>, <<" ", "k">>, <<"w", "/">>, http \o <<"/">>}
      [] field \in {"publicUrl", "uploadPath"} ->
           {<<>>, <<"w", "/">>}
      [] OTHER ->
           {<<>>, <<" ">>, <<" ", "k">>}

AllFields == UNION {ProviderFields[p] : p \in CloudProviderType}

\* the tab is closed and the settings are as loaded, with provider active
InitEdit(providers, configurations) ==
    /\ \E provider \in providers, cp \in configurations :
          settings = [DEFAULT_SETTINGS EXCEPT !.activeCloudProvider = provider,
                                              !.cloudProviders = cp]
    /\ saved = settings
    /\ activeScopes = newActiveScopes(settings)
    /\ activeFileTypes = newActiveFileTypes(settings)
    /\ allItems = <<>>
    /\ isLoading = FALSE
    /\ modalOpen = FALSE
    /\ uiBuilt = FALSE
    /\ scopeBtn = [s \in SearchScope |-> FALSE]
    /\ typeBtn = [c \in FileTypeCategory |-> FALSE]
    /\ libraryText = NoLibraryText
    /\ shown = <<>>
    /\ InitTab
    /\ InitLoad
    /\ InitInsertIdle
    /\ InitPasteIdle
    /\ InitPureIdle

NextEdit(providers) ==
    \/ Display
    \/ \E value \in providers : ProviderSelect(value)
    \/ \E k \in 1..MaxPending : ProviderDisplay(k)
    \/ \E provider \in providers, field \in AllFields :
          \E value \in TypedValues(field) : TextChange(provider, field, value)

---------------------------------------------------------------------------
(* SpecKeys: the panels of R2, ImgHippo and Custom *)

KeyProviders == {"r2", "imghippo", "custom"}

InitKeys == InitEdit(KeyProviders, LoadedCloudProviders)

NextKeys == NextEdit(KeyProviders)

SpecKeys == InitKeys /\ [][NextKeys]_vars

\* the credentials a provider cannot upload without
RequiredFields ==
    [r2       |-> {"workerUrl", "apiKey"},
     imghippo |-> {"apiKey"},
     s3       |-> {"endpoint", "accessKeyId", "secretAccessKey"},
     webdav   |-> {"serverUrl", "username", "password"},
     custom   |-> {"uploadUrl"}]

\* enabled tells whether every required credential of the provider is stored
EnabledIffStored(provider) ==
    settings.cloudProviders[provider].enabled
        <=> \A f \in RequiredFields[provider] :
                settings.cloudProviders[provider][f] # <<>>

\* C15: for the R2, ImgHippo and Custom providers, after any edits of the
\* settings among which is an edit of a credential field of the provider,
\* enabled is true exactly if all its required stored credentials are
\* non-empty; editing publicUrl never changes enabled.
C15_EnabledIffCredentials ==
    /\ [](\A p \in KeyProviders :
            (\E f \in RequiredFields[p] : <<p, f>> \in edited)
                => EnabledIffStored(p))
    /\ [][\A p \in KeyProviders : \A value \in TypedValues("publicUrl") :
            TextChange(p, "publicUrl", value) =>
                settings'.cloudProviders[p].enabled
                    = settings.cloudProviders[p].enabled]_vars

\* R2 was given a worker URL without its scheme, a key and a public URL and
\* is enabled; Custom, loaded enabled, had its upload URL cleared
C15_Witness ==
    /\ {<<"r2", "workerUrl">>, <<"r2", "apiKey">>, <<"r2", "publicUrl">>,
        <<"custom", "uploadUrl">>} \subseteq edited
    /\ settings.cloudProviders.r2.workerUrl = https \o <<"w">>
    /\ settings.cloudProviders.r2.apiKey = <<"k">>
    /\ settings.cloudProviders.r2.publicUrl = <<"w">>
    /\ settings.cloudProviders.r2.enabled
    /\ settings.cloudProviders.custom.uploadUrl = <<>>
    /\ ~settings.cloudProviders.custom.enabled

---------------------------------------------------------------------------
(* SpecSecrets: the panels of S3 and WebDAV *)

SecretProviders == {"s3", "webdav"}

\* provider configurations data.json may hold: none, or both configured
LoadedSecretProviders ==
    {DefaultCloudProviders,
     [DefaultCloudProviders EXCEPT
        !.s3 = [endpoint |-> <<"k">>, region |-> <<>>, bucket |-> <<>>,
                accessKeyId |-> <<"k">>, secretAccessKey |-> <<"k">>,
                publicUrl |-> <<>>, enabled |-> TRUE],
        !.webdav = [serverUrl |-> <<"k">>, username |-> <<"k">>,
                    password |-> <<"k">>, uploadPath |-> eagleUploads,
                    publicUrl |-> <<>>, enabled |-> TRUE]]}

InitSecrets == InitEdit(SecretProviders, LoadedSecretProviders)

\* the panel on screen stays that of the provider the settings were loaded
\* with: the fields of S3 and of WebDAV are edited in separate behaviours
NextSecrets ==
    \/ Display
    \/ \E provider \in SecretProviders, field \in AllFields :
          \E value \in TypedValues(field) : TextChange(provider, field, value)

SpecSecrets == InitSecrets /\ [][NextSecrets]_vars

\* the field that holds the provider's secret
SecretField == [s3 |-> "secretAccessKey", webdav |-> "password"]

\* C16: for the S3 and WebDAV providers, after any edits of the settings in
\* which the provider's secret was edited at least once, enabled is true
\* exactly if all its required stored credentials are non-empty; a provider
\* whose endpoint, server URL, access key id or username has been cleared
\* is not enabled.
C16_EnabledIffSecrets ==
    \A p \in SecretProviders :
        <<p, SecretField[p]>> \in edited => EnabledIffStored(p)

====
